---- MODULE Spec2Model ----
(***************************************************************************)
(* Model of the Python KGP client library, client/pykgp/kgp.py:            *)
(* the Board class and the session run by connect(): the dispatcher loop   *)
(* of handle(), the query worker processes it spawns, the shared outbound  *)
(* id counter and queue, and the sender thread.                            *)
(***************************************************************************)
EXTENDS Integers, Sequences, FiniteSets, TLC

(***************************************************************************)
(* Bounds of the model.                                                    *)
(***************************************************************************)
MaxLines == 3      \* inbound lines the dispatcher reads in one session
MaxWorkers == 2    \* query processes spawned in one session
MaxAlive == 1      \* query processes running at the same time
MaxMoves == 2      \* values the agent generators produce in one session
MaxCid == 1        \* largest id / ref the server puts on a line
MaxMsgs == 4       \* messages sent in one session

(***************************************************************************)
(* Python values.  An id or ref matches \d+ and is never negative, so an   *)
(* absent id, ref or lock owner (Python's None) is written -1; every other *)
(* Python value is a record of its type t and its value: n for an int or   *)
(* bool, s for a str, b for a Board.                                       *)
(***************************************************************************)
None == -1

NoBoard == [south |-> 0, north |-> 0, south_pits |-> <<>>, north_pits |-> <<>>]

PyVal(t, n, s, b) == [t |-> t, n |-> n, s |-> s, b |-> b]
PyNone == PyVal("NoneType", 0, "", NoBoard)
PyInt(n) == PyVal("int", n, "", NoBoard)
PyBool(x) == PyVal("bool", IF x THEN 1 ELSE 0, "", NoBoard)
PyStr(s) == PyVal("str", 0, s, NoBoard)
PyBoard(b) == PyVal("Board", 0, "", b)

(***************************************************************************)
(* Board: the four fields set by Board.__init__.                           *)
(***************************************************************************)
Board(south, north, south_pits, north_pits) ==
    [south |-> south, north |-> north,
     south_pits |-> south_pits, north_pits |-> north_pits]

NORTH == TRUE
SOUTH == ~NORTH

size(b) == Len(b.north_pits)

side(b, s) == IF s = NORTH THEN b.north_pits ELSE b.south_pits

pit(b, s, p) == side(b, s)[p + 1]

is_legal(b, s, move) == pit(b, s, move) > 0

legal_moves(b, s) == {move \in 0..(size(b) - 1) : is_legal(b, s, move)}

is_final(b) == (legal_moves(b, NORTH) = {}) \/ (legal_moves(b, SOUTH) = {})

\* Board.parse after the integers of the literal have been read: DATA is
\* the list [int(d) for d in match.group(2).split(',')], at least five long.
ParseData(data) ==
    IF Len(data) # data[1] * 2 + 2 + 1
    THEN PyNone
    ELSE PyBoard(Board(data[2], data[3],
                       SubSeq(data, 4, 3 + data[1]),
                       SubSeq(data, 4 + data[1], Len(data))))

(***************************************************************************)
(* Board objects in memory.  A Board object holds its two stores and       *)
(* refers to two list objects; a heap is the sequence of Board objects and *)
(* the sequence of list objects, an address the index in its sequence.     *)
(***************************************************************************)
MaxSize == 3       \* pits per side of the boards tried
MaxStones == 3     \* stones in a pit of the boards tried
MaxStore == 1      \* stones in a store of the boards tried

Heap(objs, lists) == [objs |-> objs, lists |-> lists]

\* The attributes of a Board object: south_pits and north_pits are the
\* addresses of its lists.
Object(south, north, south_pits, north_pits) ==
    [south |-> south, north |-> north,
     south_pits |-> south_pits, north_pits |-> north_pits]

\* Board(south, north, south_pits, north_pits) as the only object.
NewHeap(b) ==
    Heap(<<Object(b.south, b.north, 1, 2)>>, <<b.south_pits, b.north_pits>>)

\* The board that object o is at present.
Value(h, o) ==
    Board(h.objs[o].south, h.objs[o].north,
          h.lists[h.objs[o].south_pits], h.lists[h.objs[o].north_pits])

\* Board.side on an object: the list itself.
Pits(h, o, s) ==
    IF s = NORTH THEN h.objs[o].north_pits ELSE h.objs[o].south_pits

\* b[side] and b[side, pit]
Store(h, o, s) == IF s = NORTH THEN h.objs[o].north ELSE h.objs[o].south

Stones(h, o, s, p) == pit(Value(h, o), s, p)

\* b[side] = value
SetStore(h, o, s, value) ==
    Heap(IF s = NORTH THEN [h.objs EXCEPT ![o].north = value]
                      ELSE [h.objs EXCEPT ![o].south = value],
         h.lists)

\* b[side, pit] = value: an assignment into the list.
SetPit(h, o, s, p, value) ==
    Heap(h.objs, [h.lists EXCEPT ![Pits(h, o, s)][p + 1] = value])

\* copy.copy: a new object that refers to the same two lists.
copy_Shallow(h, o) == Heap(Append(h.objs, h.objs[o]), h.lists)

\* Board.copy: copy.deepcopy makes a new object with lists of its own; the
\* new object is the last one of the heap.
copy(h, o) ==
    Heap(Append(h.objs,
                Object(h.objs[o].south, h.objs[o].north,
                       Len(h.lists) + 1, Len(h.lists) + 2)),
         h.lists \o <<h.lists[h.objs[o].south_pits],
                      h.lists[h.objs[o].north_pits]>>)

RECURSIVE sum(_)
sum(l) == IF l = <<>> THEN 0 ELSE Head(l) + sum(Tail(l))

Zeros(n) == [i \in 1..n |-> 0]

\* Board._collect: the pits go to the stores and both lists are replaced by
\* new lists of zeros.
collect(h, o) ==
    Heap([h.objs EXCEPT
             ![o].north = @ + sum(h.lists[h.objs[o].north_pits]),
             ![o].north_pits = Len(h.lists) + 1,
             ![o].south = @ + sum(h.lists[h.objs[o].south_pits]),
             ![o].south_pits = Len(h.lists) + 2],
         h.lists \o <<Zeros(Len(h.lists[h.objs[o].north_pits])),
                      Zeros(Len(h.lists[h.objs[o].south_pits]))>>)

\* The while loop of sow, lines 179..189, on object b with n = self.size:
\* the heap, side and pos when stones has reached 0.
RECURSIVE SowLoop(_, _, _, _, _, _, _)
SowLoop(h, b, me, side0, pos, stones, n) ==
    IF stones > 0
    THEN IF pos = n
         THEN IF side0 = me
              THEN SowLoop(SetStore(h, b, me, Store(h, b, me) + 1),
                           b, me, ~side0, 0, stones - 1, n)
              ELSE SowLoop(h, b, me, ~side0, 0, stones, n)
         ELSE SowLoop(SetPit(h, b, side0, pos, Stones(h, b, side0, pos) + 1),
                      b, me, side0, pos + 1, stones - 1, n)
    ELSE [h |-> h, side |-> side0, pos |-> pos]

\* sow, lines 168..177 and the loop: copy when pure, take the stones out of
\* the pit and sow them.
Sown(h, self, s, p, pure) ==
    LET h0 == IF pure THEN copy(h, self) ELSE h
        b == IF pure THEN Len(h0.objs) ELSE self
        l == SowLoop(SetPit(h0, b, s, p, 0), b, s, s, p + 1,
                     Stones(h0, b, s, p), size(Value(h, self)))
    IN [h |-> l.h, b |-> b, side |-> l.side, pos |-> l.pos]

Result(h, b, again) == [h |-> h, b |-> b, again |-> again]

\* Lines 192..194 without the test of finality.
StoreEnd_NoFinal(h, b) == Result(h, b, TRUE)

\* Lines 192..194: the last stone went into the mover's store.
StoreEnd(h, b) ==
    IF is_final(Value(h, b))
    THEN Result(collect(h, b), b, FALSE)
    ELSE Result(h, b, TRUE)

\* Line 198: the landing pit holds one stone and the opposite pit some.
Captures(h, b, s, last, other) ==
    Stones(h, b, s, last) = 1 /\ Stones(h, b, ~s, other) > 0

\* A capture that takes the opposite pit but leaves the landing stone.
Capture_KeepsLanding(h, b, s, last, other) ==
    SetPit(SetStore(h, b, s, Store(h, b, s) + Stones(h, b, ~s, other)),
           b, ~s, other, 0)

\* A capture that forgets the landing stone.
Capture_LosesLanding(h, b, s, last, other) ==
    SetPit(SetPit(SetStore(h, b, s,
                           Store(h, b, s) + Stones(h, b, ~s, other)),
                  b, ~s, other, 0),
           b, s, last, 0)

\* Lines 199..201
Capture(h, b, s, last, other) ==
    SetPit(SetPit(SetStore(h, b, s,
                           Store(h, b, s) + Stones(h, b, ~s, other) + 1),
                  b, ~s, other, 0),
           b, s, last, 0)

\* Lines 195..206 with finality decided before the capture.
RowEnd_FinalFirst(h, b, s, capture, last, other) ==
    LET h1 == IF is_final(Value(h, b)) THEN collect(h, b) ELSE h
    IN Result(IF capture /\ Captures(h1, b, s, last, other)
              THEN Capture(h1, b, s, last, other) ELSE h1,
              b, FALSE)

\* Lines 195..206: capture is TRUE when the loop ended on the mover's row
\* (side == me and pos > 0); finality is decided after the capture.
RowEnd(h, b, s, capture, last, other) ==
    LET h1 == IF capture /\ Captures(h, b, s, last, other)
              THEN Capture(h, b, s, last, other) ELSE h
    IN Result(IF is_final(Value(h1, b)) THEN collect(h1, b) ELSE h1,
              b, FALSE)

\* Board.sow(side, pit, pure) for a legal move: the heap after the call, the
\* object returned and the flag returned.
sow(h, self, s, p, pure) ==
    LET l == Sown(h, self, s, p, pure)
        n == size(Value(h, self))
    IN IF l.pos = 0 /\ s # l.side
       THEN StoreEnd(l.h, l.b)
       ELSE LET capture == l.side = s /\ l.pos > 0
                last == l.pos - 1
            IN RowEnd(l.h, l.b, l.side, capture,
                      IF capture THEN last ELSE 0,
                      IF capture THEN n - 1 - last ELSE 0)

(***************************************************************************)
(* Board.__str__ and Board.parse.  A text is the sequence of its           *)
(* characters.                                                             *)
(***************************************************************************)
DIGITS == <<"0", "1", "2", "3", "4", "5", "6", "7", "8", "9">>

IsDigit(c) == \E d \in 1..Len(DIGITS) : DIGITS[d] = c

DigitVal(c) == (CHOOSE d \in 1..Len(DIGITS) : DIGITS[d] = c) - 1

\* str(n) of an integer
RECURSIVE Digits(_)
Digits(n) ==
    IF n < Len(DIGITS) THEN <<DIGITS[n + 1]>>
    ELSE Digits(n \div Len(DIGITS)) \o <<DIGITS[(n % Len(DIGITS)) + 1]>>

StrInt(n) == IF n < 0 THEN <<"-">> \o Digits(-n) ELSE Digits(n)

\* ','.join(map(str, data))
RECURSIVE JoinComma(_)
JoinComma(data) ==
    IF data = <<>> THEN <<>>
    ELSE IF Len(data) = 1 THEN StrInt(data[1])
    ELSE StrInt(data[1]) \o <<",">> \o JoinComma(Tail(data))

\* Board.__str__
str(b) ==
    <<"<">>
    \o JoinComma(<<size(b), b.south, b.north>> \o b.south_pits \o b.north_pits)
    \o <<">">>

\* The index after the run of digits that starts at index i of raw.
RECURSIVE DigitsEnd(_, _)
DigitsEnd(raw, i) ==
    IF i <= Len(raw) /\ IsDigit(raw[i]) THEN DigitsEnd(raw, i + 1) ELSE i

\* int(d) of a run of digits
RECURSIVE IntOf(_)
IntOf(ds) ==
    IF ds = <<>> THEN 0
    ELSE IntOf(SubSeq(ds, 1, Len(ds) - 1)) * Len(DIGITS)
         + DigitVal(ds[Len(ds)])

\* The longest \d+(?:,\d+)* at index i of raw: its integers and the index
\* after it.
RECURSIVE Numerals(_, _)
Numerals(raw, i) ==
    LET e == DigitsEnd(raw, i) IN
    IF e = i THEN [ints |-> <<>>, end |-> i]
    ELSE IF e < Len(raw) /\ raw[e] = "," /\ DigitsEnd(raw, e + 1) > e + 1
    THEN LET r == Numerals(raw, e + 1) IN
         [ints |-> <<IntOf(SubSeq(raw, i, e - 1))>> \o r.ints, end |-> r.end]
    ELSE [ints |-> <<IntOf(SubSeq(raw, i, e - 1))>>, end |-> e]

\* _BOARD_PATTERN.match(raw): `<`, at least five integers separated by
\* commas, `>`; what follows the `>` is not looked at.
Matches(raw) ==
    /\ Len(raw) >= 1
    /\ raw[1] = "<"
    /\ LET r == Numerals(raw, 2) IN
       /\ Len(r.ints) >= 5
       /\ r.end <= Len(raw)
       /\ raw[r.end] = ">"

Parsed(raised, val) == [raised |-> raised, val |-> val]

\* A parse that reads the northern pits before the southern ones.
parse_NorthFirst(raw) ==
    IF ~Matches(raw) THEN Parsed(TRUE, PyNone)
    ELSE LET v == ParseData(Numerals(raw, 2).ints) IN
         Parsed(FALSE,
                IF v.t = "Board"
                THEN PyBoard(Board(v.b.south, v.b.north,
                                   v.b.north_pits, v.b.south_pits))
                ELSE v)

\* Board.parse(raw): `assert match` raises AssertionError when the pattern
\* does not match; else the value returned, a Board or None.
parse(raw) ==
    IF ~Matches(raw) THEN Parsed(TRUE, PyNone)
    ELSE Parsed(FALSE, ParseData(Numerals(raw, 2).ints))

(***************************************************************************)
(* Wire codec: the groups of COMMAND_PATTERN and the tokeniser split().    *)
(* A line is the result of COMMAND_PATTERN.match: m is FALSE when the line *)
(* does not match; hasargs is FALSE when the args group did not take part  *)
(* in the match (the command word ends the line), and then                 *)
(* match.group('args') is None.  args is the text of the group as a list   *)
(* of lexemes: "str" a quoted string (s its text), "int" a run of digits,  *)
(* "dec" digits, a dot and digits (n the digits before the dot), "board" a *)
(* board literal (d its integers), "junk" anything else.                   *)
(***************************************************************************)
Tok(k, n, s, d) == [k |-> k, n |-> n, s |-> s, d |-> d]
StrTok(s) == Tok("str", 0, s, <<>>)
IntTok(n) == Tok("int", n, "", <<>>)
DecTok(n) == Tok("dec", n, "", <<>>)
BoardTok(d) == Tok("board", 0, "", d)
JunkTok == Tok("junk", 0, "", <<>>)

Line(id, ref, cmd, hasargs, args) ==
    [m |-> TRUE, id |-> id, ref |-> ref, cmd |-> cmd,
     hasargs |-> hasargs, args |-> args]

NoMatch == [m |-> FALSE, id |-> None, ref |-> None, cmd |-> "",
            hasargs |-> FALSE, args |-> <<>>]

\* split(args): the patterns are tried in the order STRING, INTEGER, FLOAT,
\* BOARD on the rest of the text; INTEGER_PATTERN takes the digits before
\* the dot of a decimal, and nothing matches the rest ".5", so parsing ends.
RECURSIVE split(_)
split(args) ==
    IF args = <<>> THEN <<>>
    ELSE LET tok == Head(args) IN
         CASE tok.k = "str" -> <<PyStr(tok.s)>> \o split(Tail(args))
           [] tok.k = "int" -> <<PyInt(tok.n)>> \o split(Tail(args))
           [] tok.k = "dec" -> <<PyInt(tok.n)>>
           [] tok.k = "board" -> <<ParseData(tok.d)>> \o split(Tail(args))
           [] OTHER -> <<>>

\* split(match.group('args')) raises TypeError on None[upto:].
SplitRaises(line) == ~line.hasargs

(***************************************************************************)
(* Inputs of a session: the lines the server may send, the values an agent *)
(* generator may produce, and the keyword arguments given to connect().    *)
(***************************************************************************)
InIds == 0..MaxCid

OpenBoard == BoardTok(<<1, 0, 0, 1, 1>>)       \* <1,0,0,1,1>
FinalBoard == BoardTok(<<1, 0, 0, 0, 1>>)      \* <1,0,0,0,1>
ShortBoard == BoardTok(<<2, 0, 0, 1, 1>>)      \* <2,0,0,1,1>

KgpLines ==
    {Line(None, None, "kgp", TRUE, <<IntTok(1), IntTok(0), IntTok(0)>>),
     Line(1, None, "kgp", TRUE, <<IntTok(2), IntTok(0), IntTok(0)>>),
     Line(None, None, "kgp", TRUE, <<IntTok(1)>>)}

StateLines ==
    {Line(i, None, "state", TRUE, <<OpenBoard>>) : i \in InIds}
    \cup {Line(1, None, "state", TRUE, <<b>>) : b \in {FinalBoard, ShortBoard}}
    \cup {Line(1, None, "state", TRUE, <<>>),
          Line(1, None, "state", FALSE, <<>>)}

\* A reference follows an id: <id>@<ref> stop.
StopLines ==
    {Line(1, r, "stop", TRUE, <<>>) : r \in InIds}
    \cup {Line(1, 1, "stop", FALSE, <<>>)}

PingLines ==
    {Line(1, None, "ping", TRUE, <<StrTok("hello")>>),
     Line(1, None, "ping", TRUE, <<>>),
     Line(1, None, "ping", FALSE, <<>>)}

GoodbyeLines ==
    {Line(None, None, "goodbye", h, <<>>) : h \in BOOLEAN}

OtherLines ==
    {Line(None, None, c, TRUE, <<>>) : c \in {"ok", "error", "foo"}}

Lines ==
    KgpLines \cup StateLines \cup StopLines \cup PingLines
    \cup GoodbyeLines \cup OtherLines \cup {NoMatch}

AgentValues == {PyInt(-1), PyInt(0), PyBool(TRUE)}

Config(name, authors, token) ==
    [name |-> name, authors |-> authors, token |-> token]

Configs ==
    {Config(PyNone, <<>>, PyNone),
     Config(PyNone, <<"Eva", "Ben">>, PyStr("secret")),
     Config(PyStr("magenta"), <<"Eva", "Ben">>, PyStr("secret"))}

(***************************************************************************)
(* Inputs of the Board methods: the boards, moves and texts they are       *)
(* called with.                                                            *)
(***************************************************************************)
Boards ==
    UNION {{Board(south, north, south_pits, north_pits) :
               south \in 0..MaxStore, north \in 0..MaxStore,
               south_pits \in [1..n -> 0..MaxStones],
               north_pits \in [1..n -> 0..MaxStones]} : n \in 0..MaxSize}

\* Boards with a count of several digits and with a negative count.
OddBoards ==
    {Board(12, 0, <<10>>, <<1>>), Board(-1, 0, <<1>>, <<1>>)}

Texts ==
    {<<"<", "1", ",", "0", ",", "0", ",", "1", ",", "1", ">">>,
     <<"<", "1", ",", "0", ",", "0", ",", "1", ",", "1", ">", "x">>,
     <<"<", "2", ",", "0", ",", "0", ",", "1", ",", "1", ">">>,
     <<"<", "1", ",", "0", ",", "0", ",", "1", ",", "1", ",", "1", ">">>,
     <<"<", "1", ",", "0", ",", "0", ">">>,
     <<"<", "1", ",", "0", ",", "x", ",", "1", ",", "1", ">">>,
     <<"<", "1", ",", "0", ",", ",", "0", ",", "1", ",", "1", ">">>,
     <<"1", ",", "0", ",", "0", ",", "1", ",", "1">>,
     <<"<", "1", ",", "0", ",", "0", ",", "1", ",", "1">>,
     <<>>}

\* A call of a Board method: pc is "call" before it and "done" after it;
\* self is the board it is called on, h the heap with self at address 1,
\* b the object sow returns, val and raised the outcome of parse; text
\* tells that raw was made by __str__ from self.
NoOp ==
    [pc |-> "none", kind |-> "none", self |-> NoBoard, side |-> SOUTH,
     pit |-> 0, pure |-> TRUE, raw |-> <<>>, h |-> NewHeap(NoBoard),
     b |-> 1, again |-> FALSE, val |-> PyNone, raised |-> FALSE,
     text |-> FALSE]

SowCall(b, s, p, u) ==
    [NoOp EXCEPT !.pc = "call", !.kind = "sow", !.self = b,
                 !.h = NewHeap(b), !.side = s, !.pit = p, !.pure = u]

StrCall(b) == [NoOp EXCEPT !.pc = "call", !.kind = "str", !.self = b]

ParseCall(raw) == [NoOp EXCEPT !.pc = "call", !.kind = "parse", !.raw = raw]

(***************************************************************************)
(* State of a session.  Process 0 is the main process running handle();    *)
(* processes 1..MaxWorkers are the query processes in spawning order.      *)
(***************************************************************************)
VARIABLES
    cfg,        \* name, authors, token given to connect()
    id_value,   \* id.value, the shared outbound id counter
    id_lock,    \* the process holding id.get_lock(), or None
    queue,      \* the mp.Queue of outbound messages
    wire,       \* the messages written to the transport, in order
    threads,    \* the dispatcher's table: request id -> process
    nspawn,     \* number of processes created so far
    wk,         \* the query processes
    main,       \* the dispatcher: position, pending sends, stop in progress
    nlines,     \* number of lines taken from read()
    seen,       \* record of the lines dispatched so far
    op          \* a call of a Board method outside a session

vars == <<cfg, id_value, id_lock, queue, wire, threads, nspawn, wk, main,
          nlines, seen, op>>

Workers == 1..MaxWorkers

NoCall == [cmd |-> "", args |-> <<>>, ref |-> None]
NoMsg == [id |-> 0, ref |-> None, cmd |-> "", args |-> <<>>, src |-> 0]

Unborn ==
    [st |-> "unborn", sig |-> FALSE, pc |-> "query", cid |-> None,
     state |-> PyNone, last |-> PyNone, move |-> PyNone, call |-> NoCall,
     msg |-> NoMsg, trace |-> <<>>]

\* The session before its first step.
Fresh ==
    /\ id_value = 1
    /\ id_lock = None
    /\ queue = <<>>
    /\ wire = <<>>
    /\ threads = <<>>
    /\ nspawn = 0
    /\ wk = [w \in Workers |-> Unborn]
    /\ main = [pc |-> "read", todo |-> <<>>, msg |-> NoMsg, exc |-> FALSE,
               victim |-> 0, ref |-> None]
    /\ nlines = 0
    /\ seen = [accepted |-> FALSE, rejected |-> None, pings |-> 0]

Init ==
    /\ cfg \in Configs
    /\ Fresh
    /\ op = NoOp

(***************************************************************************)
(* send(cmd, *args, ref=None), run by the dispatcher and by every worker.  *)
(***************************************************************************)
Call(cmd, args, ref) == [cmd |-> cmd, args |-> args, ref |-> ref]

\* `if ref is not None:`, the test the docstring of send describes.
RefOf_NotNone(ref) == IF ref # None THEN ref ELSE None

\* `if ref:` -- None and 0 add no reference.
RefOf(ref) == IF ref # None /\ ref # 0 THEN ref ELSE None

\* The message built from id.value; src records the sending process.
Message(p, call) ==
    [id |-> id_value, ref |-> RefOf(call.ref), cmd |-> call.cmd,
     args |-> call.args, src |-> p]

\* id.value is read through the synchronized wrapper, which takes the lock.
CanReadId == id_lock = None

\* The messages built so far: written, queued, or about to be queued.
Built ==
    Len(wire) + Len(queue)
    + Cardinality({w \in Workers : wk[w].st = "alive" /\ wk[w].pc = "put"})
    + (IF main.pc = "put" THEN 1 ELSE 0)

\* A send starts only while the model has a message left.
MaySend == Built < MaxMsgs

(***************************************************************************)
(* The sender thread.                                                      *)
(***************************************************************************)
\* A sender that takes the newest message of the queue instead of the oldest.
Sender_Lifo ==
    /\ queue # <<>>
    /\ wire' = Append(wire, queue[Len(queue)])
    /\ queue' = SubSeq(queue, 1, Len(queue) - 1)
    /\ UNCHANGED <<op, cfg, id_value, id_lock, threads, nspawn, wk, main,
                   nlines, seen>>

\* sender(): `while True: write(queue.get())`, one message per step.
Sender ==
    /\ queue # <<>>
    /\ wire' = Append(wire, Head(queue))
    /\ queue' = Tail(queue)
    /\ UNCHANGED <<op, cfg, id_value, id_lock, threads, nspawn, wk, main,
                   nlines, seen>>

(***************************************************************************)
(* query(state, cid): the body of a worker process.                        *)
(***************************************************************************)
Alive(w) == wk[w].st = "alive"

Others(w) == UNCHANGED <<op, cfg, threads, nspawn, main, nlines, seen>>

\* query without the test of lines 326..327.
QueryEntry_NoFinalCheck(state) ==
    IF state.t # "Board" THEN "raise" ELSE "iterate"

\* What query does on entry: state.is_final() raises AttributeError when
\* state is no Board; a final board returns at once; else the loop starts.
QueryEntry(state) ==
    IF state.t # "Board" THEN "raise"
    ELSE IF is_final(state.b) THEN "return"
    ELSE "iterate"

\* `type(move) is int`: bool is a different type.
IsMove(move) == move.t = "int"

\* query without `last = move`: every move differs from the initial None.
Changed_NoLast(move, last) == move # PyNone

\* `if move != last`
Changed(move, last) == move # last

\* The pit sent for a move: move+1.
WirePit(move) == PyInt(move.n + 1)

Query(w) ==
    /\ Alive(w) /\ wk[w].pc = "query"
    /\ LET e == QueryEntry(wk[w].state) IN
       wk' = [wk EXCEPT ![w].st = CASE e = "raise" -> "raised"
                                    [] e = "return" -> "exited"
                                    [] OTHER -> "alive",
                        ![w].pc = IF e = "iterate" THEN "next" ELSE "end",
                        ![w].last = PyNone]
    /\ UNCHANGED <<id_value, id_lock, queue, wire>>
    /\ Others(w)

\* The values the agents have produced so far, in processes 1..w.
RECURSIVE Produced(_)
Produced(w) == IF w = 0 THEN 0 ELSE Len(wk[w].trace) + Produced(w - 1)

\* Entering send(cmd, *args, ref=cid): lines 297..312 build the message from
\* id.value, unless the lock is held and the process waits for it.
Enter(w, call) ==
    IF CanReadId
    THEN [wk[w] EXCEPT !.pc = "put", !.call = call, !.msg = Message(w, call)]
    ELSE [wk[w] EXCEPT !.pc = "send", !.call = call]

\* The agent generator produces the value move: a value that is no int
\* raises TypeError, a move equal to the last one is skipped, any other is
\* sent.
AgentYield(w) ==
    /\ Alive(w) /\ wk[w].pc = "next"
    /\ Produced(MaxWorkers) < MaxMoves
    /\ MaySend
    /\ \E move \in AgentValues :
         LET seen1 == [wk[w] EXCEPT !.trace = Append(@, move)] IN
         wk' = [wk EXCEPT ![w] =
                  IF ~IsMove(move)
                  THEN [seen1 EXCEPT !.st = "raised", !.pc = "end"]
                  ELSE IF Changed(move, wk[w].last)
                  THEN [Enter(w, Call("move", <<WirePit(move)>>, wk[w].cid))
                          EXCEPT !.trace = seen1.trace, !.move = move]
                  ELSE seen1]
    /\ UNCHANGED <<id_value, id_lock, queue, wire>>
    /\ Others(w)

\* The agent generator ends: the for loop's else branch sends yield.
AgentEnd(w) ==
    /\ Alive(w) /\ wk[w].pc = "next"
    /\ MaySend
    /\ wk' = [wk EXCEPT ![w] = Enter(w, Call("yield", <<>>, wk[w].cid))]
    /\ UNCHANGED <<id_value, id_lock, queue, wire>>
    /\ Others(w)

\* send, line 313: queue.put(msg).
WorkerPut(w) ==
    /\ Alive(w) /\ wk[w].pc = "put"
    /\ queue' = Append(queue, wk[w].msg)
    /\ wk' = [wk EXCEPT ![w].pc = "incr"]
    /\ UNCHANGED <<id_value, id_lock, wire>>
    /\ Others(w)

\* send, lines 315..316: under id.get_lock(), id.value += 2; then send
\* returns: after a move, last = move and the loop goes on; after yield,
\* query ends.  The lock makes the two lines one step for every other
\* process (a kill inside them is Die).
WorkerIncr(w) ==
    /\ Alive(w) /\ wk[w].pc = "incr"
    /\ id_lock = None
    /\ id_value' = id_value + 2
    /\ wk' = IF wk[w].call.cmd = "move"
             THEN [wk EXCEPT ![w].pc = "next", ![w].last = wk[w].move,
                             ![w].move = PyNone, ![w].call = NoCall,
                             ![w].msg = NoMsg]
             ELSE [wk EXCEPT ![w].pc = "end", ![w].st = "exited",
                             ![w].move = PyNone, ![w].call = NoCall,
                             ![w].msg = NoMsg]
    /\ UNCHANGED <<id_lock, queue, wire>>
    /\ Others(w)

\* SIGKILL reaches the process: it stops where it is.  Inside lines
\* 315..316 it dies holding the lock, before or after the addition.
Die(w) ==
    /\ Alive(w) /\ wk[w].sig
    /\ wk' = [wk EXCEPT ![w].st = "killed"]
    /\ \/ UNCHANGED <<id_value, id_lock>>
       \/ /\ wk[w].pc = "incr" /\ id_lock = None
          /\ id_lock' = w
          /\ id_value' \in {id_value, id_value + 2}
    /\ UNCHANGED <<queue, wire>>
    /\ Others(w)

(***************************************************************************)
(* handle(read, write): the dispatcher loop of the main process.  One      *)
(* action per branch: the line is read, matched, split and dispatched up   *)
(* to the first send or join of the branch.                                *)
(***************************************************************************)
Shared == UNCHANGED <<op, cfg, id_value, id_lock, queue, wire>>

\* Back to the head of the for loop.
Continue == [main EXCEPT !.pc = "read", !.todo = <<>>, !.exc = FALSE,
                         !.msg = NoMsg, !.victim = 0, !.ref = None]

\* The sends of the current branch are started: send is entered for the
\* first of them.
Sending(calls, exc) ==
    IF CanReadId /\ MaySend
    THEN [main EXCEPT !.pc = "put", !.todo = calls, !.exc = exc,
                      !.msg = Message(0, Head(calls))]
    ELSE [main EXCEPT !.pc = "send", !.todo = calls, !.exc = exc]

\* `for line in read()` delivers a line.
Reads == main.pc = "read" /\ nlines < MaxLines /\ nlines' = nlines + 1

\* `if not match: continue`, and the TypeError of split(None), which the
\* except clause swallows.
Dropped(line) == ~line.m \/ SplitRaises(line)

\* read() is exhausted: the for loop ends and handle returns.
ReadEnd ==
    /\ main.pc = "read"
    /\ main' = [main EXCEPT !.pc = "returned"]
    /\ Shared
    /\ UNCHANGED <<threads, nspawn, wk, nlines, seen>>

ReadDropped ==
    /\ Reads
    /\ \E line \in Lines :
         /\ Dropped(line)
         /\ seen' = IF line.cmd = "ping"
                    THEN [seen EXCEPT !.pings = @ + 1] ELSE seen
    /\ main' = Continue
    /\ Shared
    /\ UNCHANGED <<threads, nspawn, wk>>

\* `if name:` -- None and the empty string are false.
Truthy(v) == (v.t # "NoneType") /\ ~(v.t = "str" /\ v.s = "")

RECURSIVE Join(_)
Join(authors) ==
    IF Len(authors) = 0 THEN ""
    ELSE IF Len(authors) = 1 THEN authors[1]
    ELSE authors[1] \o "," \o Join(Tail(authors))

\* The sends of lines 366..372 with the mode sent first.
Handshake_ModeFirst(c) ==
    <<Call("mode", <<PyStr("freeplay")>>, None)>>
    \o (IF Truthy(c.name)
        THEN <<Call("set", <<PyStr("info:name"), c.name>>, None)>>
        ELSE <<>>)
    \o (IF c.authors # <<>>
        THEN <<Call("set", <<PyStr("info:authors"),
                             PyStr(Join(c.authors))>>, None)>>
        ELSE <<>>)
    \o (IF Truthy(c.token)
        THEN <<Call("set", <<PyStr("auth:token"), c.token>>, None)>>
        ELSE <<>>)

\* The sends of an accepted kgp line, lines 366..372.
Handshake(c) ==
    (IF Truthy(c.name)
     THEN <<Call("set", <<PyStr("info:name"), c.name>>, None)>>
     ELSE <<>>)
    \o (IF c.authors # <<>>
        THEN <<Call("set", <<PyStr("info:authors"),
                             PyStr(Join(c.authors))>>, None)>>
        ELSE <<>>)
    \o (IF Truthy(c.token)
        THEN <<Call("set", <<PyStr("auth:token"), c.token>>, None)>>
        ELSE <<>>)
    \o <<Call("mode", <<PyStr("freeplay")>>, None)>>

\* `if major != 1`
Supported(major) == major = PyInt(1)

\* The reply to an unsupported version, line 364.
Reject(cid) == <<Call("error", <<PyStr("protocol not supported")>>, cid)>>

ReadKgp ==
    /\ Reads
    /\ \E line \in KgpLines :
         /\ ~Dropped(line)
         /\ LET args == split(line.args) IN
            IF Len(args) # 3
            THEN \* the unpacking raises ValueError, swallowed
                 /\ main' = Continue
                 /\ seen' = seen
            ELSE IF ~Supported(args[1])
            THEN /\ main' = Sending(Reject(line.id), TRUE)
                 /\ seen' = [seen EXCEPT !.rejected = nlines']
            ELSE /\ main' = Sending(Handshake(cfg), FALSE)
                 /\ seen' = [seen EXCEPT !.accepted = TRUE]
    /\ Shared
    /\ UNCHANGED <<threads, nspawn, wk>>

\* `if cid in threads`
Duplicate(cid) == cid \in DOMAIN threads

\* The query processes that have not ended.
Running == {w \in Workers : wk[w].st = "alive"}

\* A state line is read only while the model has a process left to spawn.
ReadState ==
    /\ Reads
    /\ nspawn < MaxWorkers
    /\ Cardinality(Running) < MaxAlive
    /\ \E line \in StateLines :
         /\ ~Dropped(line)
         /\ LET args == split(line.args)
                cid == line.id
            IN
            IF Len(args) = 0
            THEN \* args[0] raises IndexError, which no except clause catches
                 /\ main' = [main EXCEPT !.pc = "raised"]
                 /\ UNCHANGED <<threads, nspawn, wk>>
            ELSE IF Duplicate(cid)
            THEN /\ main' = Continue
                 /\ UNCHANGED <<threads, nspawn, wk>>
            ELSE /\ nspawn' = nspawn + 1
                 /\ threads' = (cid :> nspawn') @@ threads
                 /\ wk' = [wk EXCEPT ![nspawn'] =
                             [Unborn EXCEPT !.st = "alive", !.cid = cid,
                                            !.state = args[1]]]
                 /\ main' = Continue
    /\ Shared
    /\ UNCHANGED seen

\* `if ref and ref in threads`
Stoppable(ref) == ref # None /\ ref # 0 /\ ref \in DOMAIN threads

\* stop: thread.kill() sends SIGKILL to the process.
ReadStop ==
    /\ Reads
    /\ \E line \in StopLines :
         /\ ~Dropped(line)
         /\ IF Stoppable(line.ref)
            THEN LET w == threads[line.ref] IN
                 /\ wk' = [wk EXCEPT ![w].sig = TRUE]
                 /\ main' = [main EXCEPT !.pc = "join", !.victim = w,
                                         !.ref = line.ref]
            ELSE /\ main' = Continue
                 /\ wk' = wk
    /\ Shared
    /\ UNCHANGED <<threads, nspawn, seen>>

\* A stop branch without thread.join(): it goes on once kill() was called.
JoinReturns_NoJoin(w) == wk[w].sig

\* thread.join() returns once the process has ended.
JoinReturns(w) == wk[w].st \in {"exited", "raised", "killed"}

\* thread.join(); threads.pop(ref, None)
StopJoin ==
    /\ main.pc = "join"
    /\ JoinReturns(main.victim)
    /\ threads' = [c \in DOMAIN threads \ {main.ref} |-> threads[c]]
    /\ main' = Continue
    /\ Shared
    /\ UNCHANGED <<nspawn, wk, nlines, seen>>

\* The reply to a ping, lines 396..399.
Pong(args, cid) ==
    IF Len(args) >= 1
    THEN <<Call("pong", <<args[1]>>, cid)>>
    ELSE <<Call("pong", <<>>, cid)>>

ReadPing ==
    /\ Reads
    /\ \E line \in PingLines :
         /\ ~Dropped(line)
         /\ main' = Sending(Pong(split(line.args), line.id), FALSE)
    /\ seen' = [seen EXCEPT !.pings = @ + 1]
    /\ Shared
    /\ UNCHANGED <<threads, nspawn, wk>>

\* goodbye: handle returns.
ReadGoodbye ==
    /\ Reads
    /\ \E line \in GoodbyeLines : ~Dropped(line)
    /\ main' = [main EXCEPT !.pc = "returned"]
    /\ Shared
    /\ UNCHANGED <<threads, nspawn, wk, seen>>

\* ok and error are ignored; no branch matches any other command.
ReadOther ==
    /\ Reads
    /\ \E line \in OtherLines : ~Dropped(line)
    /\ main' = Continue
    /\ Shared
    /\ UNCHANGED <<threads, nspawn, wk, seen>>

\* send in the main process, lines 297..312, for a later send of the branch.
MainFormat ==
    /\ main.pc = "send"
    /\ MaySend
    /\ CanReadId
    /\ main' = [main EXCEPT !.pc = "put",
                            !.msg = Message(0, Head(main.todo))]
    /\ Shared
    /\ UNCHANGED <<threads, nspawn, wk, nlines, seen>>

\* line 313
MainPut ==
    /\ main.pc = "put"
    /\ queue' = Append(queue, main.msg)
    /\ main' = [main EXCEPT !.pc = "incr"]
    /\ UNCHANGED <<op, cfg, id_value, id_lock, wire, threads, nspawn, wk,
                   nlines, seen>>

\* lines 315..316; then the next send of the branch, or, after the error
\* reply, `raise ValueError()`, which `except ValueError: pass` swallows.
MainIncr ==
    /\ main.pc = "incr"
    /\ id_lock = None
    /\ id_value' = id_value + 2
    /\ main' = IF Len(main.todo) > 1
               THEN [main EXCEPT !.pc = "send", !.todo = Tail(@),
                                 !.msg = NoMsg]
               ELSE Continue
    /\ UNCHANGED <<op, cfg, id_lock, queue, wire, threads, nspawn, wk, nlines,
                   seen>>

Next ==
    \/ ReadEnd
    \/ ReadDropped
    \/ ReadKgp
    \/ ReadState
    \/ ReadStop
    \/ StopJoin
    \/ ReadPing
    \/ ReadGoodbye
    \/ ReadOther
    \/ MainFormat
    \/ MainPut
    \/ MainIncr
    \/ Sender
    \/ \E w \in Workers : Query(w)
    \/ \E w \in Workers : AgentYield(w)
    \/ \E w \in Workers : AgentEnd(w)
    \/ \E w \in Workers : WorkerPut(w)
    \/ \E w \in Workers : WorkerIncr(w)
    \/ \E w \in Workers : Die(w)

Spec == Init /\ [][Next]_vars

(***************************************************************************)
(* Calls of the Board methods, outside any session.                        *)
(***************************************************************************)
NoSession ==
    UNCHANGED <<cfg, id_value, id_lock, queue, wire, threads, nspawn, wk,
                main, nlines, seen>>

BoardInit ==
    /\ cfg = Config(PyNone, <<>>, PyNone)
    /\ Fresh
    /\ \/ \E b \in Boards : \E s \in BOOLEAN, u \in BOOLEAN :
              \E p \in 0..(size(b) - 1) : op = SowCall(b, s, p, u)
       \/ \E b \in Boards \cup OddBoards : op = StrCall(b)
       \/ \E raw \in Texts : op = ParseCall(raw)

\* self.sow(side, pit, pure): `assert b.is_legal(side, pit)` raises when
\* the pit is empty.
CallSow ==
    /\ op.pc = "call" /\ op.kind = "sow"
    /\ op' = IF is_legal(op.self, op.side, op.pit)
             THEN LET r == sow(op.h, 1, op.side, op.pit, op.pure) IN
                  [op EXCEPT !.pc = "done", !.h = r.h, !.b = r.b,
                             !.again = r.again]
             ELSE [op EXCEPT !.pc = "done", !.raised = TRUE]
    /\ NoSession

\* str(self); the text is then given to Board.parse.
CallStr ==
    /\ op.pc = "call" /\ op.kind = "str"
    /\ op' = [op EXCEPT !.kind = "parse", !.raw = str(op.self),
                        !.text = TRUE]
    /\ NoSession

\* Board.parse(raw)
CallParse ==
    /\ op.pc = "call" /\ op.kind = "parse"
    /\ op' = [op EXCEPT !.pc = "done", !.val = parse(op.raw).val,
                        !.raised = parse(op.raw).raised]
    /\ NoSession

BoardNext == CallSow \/ CallStr \/ CallParse

BoardSpec == BoardInit /\ [][BoardNext]_vars

(***************************************************************************)
(* What the claims speak about.                                            *)
(***************************************************************************)
\* Every message put on the queue so far, in the order of the puts.
Enqueued == wire \o queue

\* The messages process p has put on the queue, in order.
SentBy(p) == SelectSeq(Enqueued, LAMBDA m : m.src = p)

\* A message without its outbound id and its sender.
Body(m) == Call(m.cmd, m.args, m.ref)

Bodies(msgs) == [i \in 1..Len(msgs) |-> Body(msgs[i])]

Spawned(w) == wk[w].st # "unborn"

\* The dispatcher has finished a stop for process w: killed, joined and
\* removed from the table.
Stopped(w) ==
    /\ Spawned(w)
    /\ ~(\E c \in DOMAIN threads : threads[c] = w)

\* The request of process w has a final board / a board that is not final.
FinalRequest(w) ==
    Spawned(w) /\ wk[w].state.t = "Board" /\ is_final(wk[w].state.b)

OpenRequest(w) ==
    Spawned(w) /\ wk[w].state.t = "Board" /\ ~is_final(wk[w].state.b)

(***************************************************************************)
(* C1: the ids of the messages written to the transport, in the order they *)
(* are written, are exactly 1, 3, 5, ...                                   *)
(***************************************************************************)
C1_IdDiscipline == \A i \in 1..Len(wire) : wire[i].id = 2 * i - 1

(***************************************************************************)
(* C2: once the dispatcher has finished the stop of a request, that        *)
(* request's worker puts no further message on the queue.                  *)
(***************************************************************************)
C2_NoSendAfterStop ==
    [][\A w \in Workers : Stopped(w) => SentBy(w)' = SentBy(w)]_vars

\* A worker was killed by a finished stop while a message of its own was
\* still queued.
C2_Witness ==
    \E w \in Workers :
        /\ Stopped(w) /\ wk[w].st = "killed"
        /\ \E i \in 1..Len(queue) : queue[i].src = w

(***************************************************************************)
(* C3: at most one worker is ever spawned per request id, also after the   *)
(* earlier worker has ended or has been cancelled by stop.                 *)
(***************************************************************************)
C3_OneWorkerPerId ==
    \A v, w \in Workers :
        (Spawned(v) /\ Spawned(w) /\ wk[v].cid = wk[w].cid) => v = w

(***************************************************************************)
(* C4: after a kgp line with a major version other than 1 the session is   *)
(* over: no later line is dispatched.                                      *)
(***************************************************************************)
C4_RejectEndsSession == seen.rejected # None => nlines = seen.rejected

(***************************************************************************)
(* C5: the worker of a request with a final board emits exactly one yield  *)
(* and no move, then exits.                                                *)
(***************************************************************************)
C5_FinalYields ==
    \A w \in Workers :
        (FinalRequest(w) /\ wk[w].st = "exited")
            => Bodies(SentBy(w)) = <<Call("yield", <<>>, wk[w].cid)>>

\* C5 as amended: the worker of a request with a final board emits nothing,
\* neither move nor yield, and exits on its first step.
C5_FinalSilent ==
    \A w \in Workers :
        FinalRequest(w) =>
            /\ SentBy(w) = <<>>
            /\ wk[w].st \in {"alive", "exited", "killed"}
            /\ wk[w].st = "alive" => wk[w].pc = "query"

C5_Witness == \E w \in Workers : FinalRequest(w) /\ wk[w].st = "exited"

(***************************************************************************)
(* C6: for a board that is not final and an agent whose moves m1..mk end   *)
(* by themselves, the worker enqueues move (mi+1) for exactly the i with   *)
(* i = 1 or mi # m(i-1), in order, and then one yield as its last message; *)
(* for a request id r >= 1 each of them carries the reference r (the       *)
(* reference under id 0 is the subject of C7).                             *)
(***************************************************************************)
C6_Word(cmd, args) == [cmd |-> cmd, args |-> args]

RECURSIVE C6_Moves(_, _)
C6_Moves(trace, i) ==
    IF i > Len(trace) THEN <<>>
    ELSE (IF i = 1 \/ trace[i] # trace[i - 1]
          THEN <<C6_Word("move", <<PyInt(trace[i].n + 1)>>)>>
          ELSE <<>>)
         \o C6_Moves(trace, i + 1)

C6_MovesThenYield ==
    \A w \in Workers :
        (OpenRequest(w) /\ wk[w].st = "exited") =>
            LET M == SentBy(w) IN
            /\ [i \in 1..Len(M) |-> C6_Word(M[i].cmd, M[i].args)] =
                   C6_Moves(wk[w].trace, 1) \o <<C6_Word("yield", <<>>)>>
            /\ wk[w].cid >= 1 => \A i \in 1..Len(M) : M[i].ref = wk[w].cid

\* An agent produced pit 0 twice and ended: one move 1, then yield.
C6_Witness ==
    \E w \in Workers :
        /\ OpenRequest(w) /\ wk[w].st = "exited" /\ wk[w].cid >= 1
        /\ wk[w].trace = <<PyInt(0), PyInt(0)>>

C8_IsPit(v) == v.t = "int" /\ v.n >= 0

C8_BadValueSilences ==
    /\ \A w \in Workers : \A i \in 1..Len(wk[w].trace) :
           ~C8_IsPit(wk[w].trace[i]) =>
               Len(SentBy(w))
                   <= Len(C6_Moves(SubSeq(wk[w].trace, 1, i - 1), 1))
    /\ \A i \in 1..Len(Enqueued) :
           Enqueued[i].cmd = "move" => Enqueued[i].args[1].n >= 1

(***************************************************************************)
(* C9: every ping line is answered by exactly one pong and has no other    *)
(* effect: whenever the dispatcher is back at the head of its loop, it has *)
(* sent as many pongs as it has read ping lines, and nothing else.         *)
(***************************************************************************)
C9_PingAnswered ==
    main.pc = "read" =>
        Len(SelectSeq(SentBy(0), LAMBDA m : m.cmd = "pong")) = seen.pings

(***************************************************************************)
(* C10: on a kgp line with major version 1 the client enqueues set         *)
(* info:name (if a name is configured), set info:authors (if authors is    *)
(* not empty), set auth:token (if a token is configured) and mode          *)
(* freeplay, in this order with nothing in between; no set or mode is sent *)
(* before such a line was received.                                        *)
(***************************************************************************)
C10_Expected ==
    SelectSeq(
        <<[on |-> cfg.name.t # "NoneType",
           call |-> Call("set", <<PyStr("info:name"), cfg.name>>, None)],
          [on |-> Len(cfg.authors) > 0,
           call |-> Call("set", <<PyStr("info:authors"),
                                  PyStr(Join(cfg.authors))>>, None)],
          [on |-> cfg.token.t # "NoneType",
           call |-> Call("set", <<PyStr("auth:token"), cfg.token>>, None)],
          [on |-> TRUE,
           call |-> Call("mode", <<PyStr("freeplay")>>, None)]>>,
        LAMBDA e : e.on)

\* In the sequence M of messages every set and mode lies in a run that is
\* the expected sequence, a run still growing only while the dispatcher is
\* inside the kgp branch; once it has left the branch the mode is there.
C10_InOrder(M) ==
    LET E == [j \in 1..Len(C10_Expected) |-> C10_Expected[j].call]
        InHandshake == main.pc \in {"send", "put", "incr"}
    IN
    /\ \A i \in 1..Len(M) :
           M[i].cmd \in {"set", "mode"} =>
               /\ seen.accepted
               /\ \E j \in 1..Len(E) :
                      /\ j <= i
                      /\ SubSeq(M, i - j + 1, i) = SubSeq(E, 1, j)
                      /\ (j < Len(E) /\ i < Len(M)) => M[i + 1] = E[j + 1]
                      /\ (j < Len(E) /\ i = Len(M)) => InHandshake
    /\ (seen.accepted /\ ~InHandshake) =>
           \E i \in 1..Len(M) : M[i].cmd = "mode"

C10_HandshakeContiguous == C10_InOrder(Bodies(Enqueued))

\* C10 as amended: the sends are made in this order with no other send of
\* the dispatcher in between; the messages of a worker that is running may
\* be enqueued between them.
C10_HandshakeOrder == C10_InOrder(Bodies(SentBy(0)))

\* A handshake of at least two sends is complete and a message of a worker
\* was enqueued between two of them.
C10_Witness ==
    \E i, j, k \in 1..Len(Enqueued) :
        /\ i < j /\ j < k
        /\ Enqueued[i].src = 0 /\ Enqueued[i].cmd = "set"
        /\ Enqueued[j].src >= 1
        /\ Enqueued[k].src = 0 /\ Enqueued[k].cmd = "mode"

(***************************************************************************)
(* C11: no inbound line makes the dispatcher raise out of handle: a line   *)
(* that is malformed, or names a known command with missing arguments, is  *)
(* dropped and the loop goes on.                                           *)
(***************************************************************************)
C11_NeverRaises == main.pc # "raised"

(***************************************************************************)
(* C19: killing a worker at any point, also inside send while it holds the *)
(* lock of the id counter, never blocks later senders: no process that was *)
(* killed is left holding the lock, which every later send must take.      *)
(***************************************************************************)
C19_KillFreesLock == \A w \in Workers : wk[w].st = "killed" => id_lock # w

(***************************************************************************)
(* C20: once the dispatcher has processed goodbye or read() has ended, no  *)
(* worker is still running.                                                *)
(***************************************************************************)
C20_ShutdownEndsWorkers ==
    main.pc = "returned" => \A w \in Workers : wk[w].st # "alive"

(***************************************************************************)
(* What the claims about Board speak about.                                *)
(***************************************************************************)
\* All the stones of a board.
Total(b) == b.south + b.north + sum(b.south_pits) + sum(b.north_pits)

\* A call of sow with a legal move has returned.
SowDone == op.kind = "sow" /\ op.pc = "done" /\ ~op.raised

\* The board sow returned, and the board it was called on as it is after
\* the call.
Returned == Value(op.h, op.b)

Receiver == Value(op.h, 1)

\* The stones taken out of the pit, and the place of the k-th of them on
\* the mover's round of 2n+1 places: 0..n-1 the mover's pits, n the mover's
\* store, n+1..2n the pits of the other side.
Taken == pit(op.self, op.side, op.pit)

Place(k) == (op.pit + k) % (2 * size(op.self) + 1)

LastInStore == Place(Taken) = size(op.self)

\* The moment the sowing loop has ended.
Landed == Sown(NewHeap(op.self), 1, op.side, op.pit, op.pure)

LandingPit == Place(Taken)

OppositePit == size(op.self) - 1 - LandingPit

\* The capture rule fires: the last stone lies alone in a pit of the mover
\* and the opposite pit is not empty; Captured is what that pit holds.
CaptureFires ==
    /\ LandingPit < size(op.self)
    /\ Stones(Landed.h, Landed.b, op.side, LandingPit) = 1
    /\ Stones(Landed.h, Landed.b, ~op.side, OppositePit) > 0

Captured == Stones(Landed.h, Landed.b, ~op.side, OppositePit)

(***************************************************************************)
(* C12: for every legal move the board sow returns holds as many stones,   *)
(* stores and pits together, as the board it was called on.                *)
(***************************************************************************)
C12_Conservation == SowDone => Total(Returned) = Total(op.self)

\* A sowing with a capture that leaves stones in the pits.
C12_Witness == SowDone /\ CaptureFires /\ ~is_final(Returned)

(***************************************************************************)
(* C13: sow returns again = TRUE exactly when the last stone was placed in *)
(* the mover's store and the returned board is not final.                  *)
(***************************************************************************)
C13_AgainIffStore ==
    SowDone => (op.again <=> (LastInStore /\ ~is_final(Returned)))

\* The last stone went into the store and the board became final.
C13_Witness == SowDone /\ LastInStore /\ is_final(Returned)

(***************************************************************************)
(* C14: when the capture rule fires, the opposite pit and the landing pit  *)
(* are 0 in the returned board and the mover's store exceeds its value in  *)
(* the input board by exactly captured + 1.                                *)
(***************************************************************************)
C14_PitsEmptied ==
    /\ pit(Returned, op.side, LandingPit) = 0
    /\ pit(Returned, ~op.side, OppositePit) = 0

C14_Gain ==
    (IF op.side = NORTH THEN Returned.north ELSE Returned.south)
    - (IF op.side = NORTH THEN op.self.north ELSE op.self.south)

C14_CaptureGain ==
    (SowDone /\ CaptureFires) => (C14_PitsEmptied /\ C14_Gain = Captured + 1)

\* C14 as amended: the store gains captured + 1, and one stone for each
\* time the sowing passed the mover's store, and the stones left in the
\* mover's own pits when the board is final after the capture and is
\* collected.
C14_Passes == Cardinality({k \in 1..Taken : Place(k) = size(op.self)})

C14_Swept ==
    IF is_final(Returned)
    THEN sum(side(Value(Landed.h, Landed.b), op.side)) - 1
    ELSE 0

C14_CaptureGainInAll ==
    (SowDone /\ CaptureFires) =>
        /\ C14_PitsEmptied
        /\ C14_Gain = Captured + 1 + C14_Passes + C14_Swept

\* A capture after the sowing went once round the board.
C14_Witness == SowDone /\ CaptureFires /\ C14_Passes >= 1

(***************************************************************************)
(* C15: if the board sow returns is final, all its pits are 0 and its two  *)
(* stores together hold the stones of the input board; finality is decided *)
(* after the capture.                                                      *)
(***************************************************************************)
C15_FinalCollected ==
    (SowDone /\ is_final(Returned)) =>
        /\ \A s \in BOOLEAN : \A p \in 0..(size(Returned) - 1) :
               pit(Returned, s, p) = 0
        /\ Returned.south + Returned.north = Total(op.self)

\* The board was not final when the sowing ended and the capture made it
\* final, with stones left on the other side.
C15_Witness ==
    /\ SowDone /\ CaptureFires /\ is_final(Returned)
    /\ ~is_final(Value(Landed.h, Landed.b))
    /\ sum(side(Value(Landed.h, Landed.b), ~op.side)) > Captured

(***************************************************************************)
(* C16: Board.parse(str(b)) returns a board equal to b for every board b   *)
(* the constructor accepts, boards without pits included.                  *)
(***************************************************************************)
C16_RoundTripDone == op.kind = "parse" /\ op.pc = "done" /\ op.text

C16_RoundTrip ==
    C16_RoundTripDone => (~op.raised /\ op.val = PyBoard(op.self))

\* C16 as amended: for every board with at least one pit on each side and
\* no negative count.
C16_Countable ==
    /\ size(op.self) >= 1
    /\ op.self.south >= 0 /\ op.self.north >= 0
    /\ \A s \in BOOLEAN : \A p \in 0..(size(op.self) - 1) :
           pit(op.self, s, p) >= 0

C16_RoundTripOfPits ==
    (C16_RoundTripDone /\ C16_Countable) =>
        (~op.raised /\ op.val = PyBoard(op.self))

\* A board with counts of two digits went through str and parse.
C16_Witness ==
    C16_RoundTripDone /\ C16_Countable /\ op.self.south >= Len(DIGITS)

(***************************************************************************)
(* C17: Board.parse returns None, without raising, for a text whose number *)
(* of integers is not 2n + 3, or with a token that is no integer, or       *)
(* without the outer < and >.                                              *)
(***************************************************************************)
C17_WellFormed ==
    {<<"<", "1", ",", "0", ",", "0", ",", "1", ",", "1", ">">>,
     <<"<", "1", ",", "0", ",", "0", ",", "1", ",", "1", ">", "x">>}

C17_BadTextGivesNone ==
    (op.kind = "parse" /\ op.pc = "done" /\ ~op.text
     /\ op.raw \notin C17_WellFormed)
        => (~op.raised /\ op.val = PyNone)

(***************************************************************************)
(* C18: sow with pure = TRUE leaves the board it is called on unchanged,   *)
(* stores and pits, also when it captures or collects.                     *)
(***************************************************************************)
C18_ReceiverUnchanged == (SowDone /\ op.pure) => Receiver = op.self

\* A pure sowing that captured and then collected.
C18_Witness ==
    SowDone /\ op.pure /\ CaptureFires /\ is_final(Returned)
    /\ Returned # op.self

(***************************************************************************)
(* C21: for each worker, the messages it enqueued are written to the       *)
(* transport in the order in which it enqueued them, its yield after all   *)
(* of its moves, whatever the other workers and the dispatcher send in     *)
(* between.  The order of a worker's sends is read from the values its     *)
(* agent produced, not from the queue.                                     *)
(***************************************************************************)
C21_Word(cmd, args) == [cmd |-> cmd, args |-> args]

\* The sends of query() for the values produced so far, then the yield of
\* the loop's else branch: a value that is no int ends the loop without a
\* send, a move equal to the one before is skipped.
RECURSIVE C21_Sends(_, _)
C21_Sends(trace, i) ==
    IF i > Len(trace) THEN <<C21_Word("yield", <<>>)>>
    ELSE IF ~IsMove(trace[i]) THEN <<>>
    ELSE (IF i = 1 \/ trace[i] # trace[i - 1]
          THEN <<C21_Word("move", <<WirePit(trace[i])>>)>>
          ELSE <<>>)
         \o C21_Sends(trace, i + 1)

\* The messages of process p written to the transport, in wire order.
C21_Written(p) ==
    LET M == SelectSeq(wire, LAMBDA m : m.src = p) IN
    [i \in 1..Len(M) |-> C21_Word(M[i].cmd, M[i].args)]

====
